---- MODULE Spec2Model ----
(***************************************************************************)
(* Model of UbuntuImageFetcher (src/python_fetcher.py): the sequential     *)
(* fetch - validate - dedup - persist pipeline of download_image and the   *)
(* batch loop of main (Spec); the filename derivation over its inputs      *)
(* (SpecFilename); the chunk loop one iteration at a time (SpecStream);    *)
(* and is_duplicate_image called from several threads (SpecThreads).       *)
(*                                                                         *)
(* Strings of the program are kept as structured values:                   *)
(*   - a URL is the record of its scheme text, its netloc text and its     *)
(*     last path segment;                                                  *)
(*   - a file name is [stem, sfx, ext]: the text stem, then "_k" for each  *)
(*     k of sfx in order, then ext ("" when the name has no extension);    *)
(*   - a body is [bytes, len]: an identifier of its byte sequence and its  *)
(*     length in bytes.                                                    *)
(***************************************************************************)
EXTENDS Integers, Sequences, FiniteSets, TLC

(***************************************************************************)
(* Bounds of the model.                                                    *)
(***************************************************************************)
MaxBatch == 3
MaxFetches == 2
MaxThreads == 2

(***************************************************************************)
(* Program constants.                                                      *)
(***************************************************************************)
max_file_size == 10 * 1024 * 1024
chunk_size == 8192

None == [none |-> TRUE]

Min(a, b) == IF a < b THEN a ELSE b

(***************************************************************************)
(* File names and the destination directory.                               *)
(***************************************************************************)
Name(stem, sfx, ext) == [stem |-> stem, sfx |-> sfx, ext |-> ext]
EmptySegment == Name("", <<>>, "")

(***************************************************************************)
(* URLs the user may enter.  "HTTPS" is spelled in capitals; the netloc    *)
(* "[example.test" has an opening bracket without its closing one.         *)
(***************************************************************************)
Url(scheme, netloc, segment) == [scheme |-> scheme, netloc |-> netloc, segment |-> segment]
UrlImage == Url("http", "example.test", Name("image", <<>>, ".jpg"))
UrlPhoto == Url("HTTPS", "example.test", Name("photo", <<>>, ""))
UrlFtp == Url("ftp", "example.test", Name("b", <<>>, ".jpg"))
UrlBracket == Url("ftp", "[example.test", Name("a", <<>>, ".png"))

BatchUrls == {UrlImage, UrlPhoto, UrlFtp, UrlBracket}

(***************************************************************************)
(* str.lower() on the texts of the model.                                  *)
(***************************************************************************)
lower(s) ==
    CASE s = "HTTP" -> "http"
      [] s = "HTTPS" -> "https"
      [] s = "IMAGE/PNG" -> "image/png"
      [] s = "Image/Gif" -> "image/gif"
      [] OTHER -> s

(***************************************************************************)
(* urllib.parse.urlparse: the scheme is lower-cased; a netloc with one     *)
(* bracket and not the other raises ValueError("Invalid IPv6 URL").        *)
(***************************************************************************)
UnbalancedNetlocs == {"[example.test"}

urlparse(url) ==
    IF url.netloc \in UnbalancedNetlocs
    THEN [raises |-> TRUE, scheme |-> "", path |-> EmptySegment]
    ELSE [raises |-> FALSE, scheme |-> lower(url.scheme), path |-> url.segment]

(***************************************************************************)
(* is_safe_url: "True", "False", or "ValueError" when urlparse raises.     *)
(***************************************************************************)
is_safe_url(url) ==
    LET parsed == urlparse(url) IN
    IF parsed.raises THEN "ValueError"
    ELSE IF parsed.scheme \in {"http", "https"} THEN "True" ELSE "False"

(***************************************************************************)
(* Bodies a server may send.  md5 is a 128-bit digest of an unbounded      *)
(* input, so it is not injective: BodyA and BodyA2 are different byte      *)
(* sequences with the same digest.                                         *)
(***************************************************************************)
Body(bytes, len) == [bytes |-> bytes, len |-> len]
BodyA == Body("A", 3)
BodyA2 == Body("A2", 3)
BodyExact == Body("E", max_file_size)
BodyOver == Body("O", max_file_size + 1)
BodyOld == Body("old", 3)
Truncated == Body("", 0)

Bodies == {BodyA, BodyA2, BodyExact, BodyOver}

md5(content) ==
    CASE content.bytes \in {"A", "A2"} -> "digest-1"
      [] content.bytes = "E" -> "digest-2"
      [] content.bytes = "O" -> "digest-3"
      [] content.bytes = "old" -> "digest-4"
      [] OTHER -> "digest-5"

(***************************************************************************)
(* Responses: status code and the two headers the program reads.  Absent   *)
(* stands for a header the response does not carry.                        *)
(***************************************************************************)
Absent == "<absent>"
Statuses == {200, 404}
ContentTypes == {Absent, "text/html", "IMAGE/PNG"}
ContentLengths == {Absent, "abc", "10485761"}

Response(status, ctype, clen) ==
    [status_code |-> status, content_type |-> ctype, content_length |-> clen]
Responses ==
    {Response(s, t, l) : s \in Statuses, t \in ContentTypes, l \in ContentLengths}

(***************************************************************************)
(* headers.get(name, default)                                              *)
(***************************************************************************)
header_get(value, default) == IF value = Absent THEN default ELSE value

\* s.startswith('image/')
startswith_image(s) ==
    LET prefix == "image/" IN
    Len(s) >= Len(prefix) /\ SubSeq(s, 1, Len(prefix)) = prefix

(***************************************************************************)
(* int(text) of a header text: the number, or ValueError.                  *)
(***************************************************************************)
int_parses(text) == text \in {"3", "10485760", "10485761"}
int_of(text) ==
    CASE text = "3" -> 3
      [] text = "10485760" -> 10485760
      [] text = "10485761" -> 10485761
      [] OTHER -> 0

\* validate_response without its status check.
validate_response_any_status(response) ==
    LET content_type == lower(header_get(response.content_type, "")) IN
    IF ~startswith_image(content_type) THEN "False"
    ELSE LET content_length == response.content_length IN
         IF content_length \in {Absent, ""} THEN "True"
         ELSE IF ~int_parses(content_length) THEN "ValueError"
         ELSE IF int_of(content_length) > max_file_size THEN "False"
         ELSE "True"

(***************************************************************************)
(* validate_response: "True", "False", or "ValueError" when int() raises.  *)
(***************************************************************************)
validate_response(response) ==
    IF response.status_code # 200 THEN "False"
    ELSE LET content_type == lower(header_get(response.content_type, "")) IN
         IF ~startswith_image(content_type) THEN "False"
         ELSE LET content_length == response.content_length IN
              IF content_length \in {Absent, ""} THEN "True"
              ELSE IF ~int_parses(content_length) THEN "ValueError"
              ELSE IF int_of(content_length) > max_file_size THEN "False"
              ELSE "True"

(***************************************************************************)
(* The chunk loop of download_image over a body that iter_content yields   *)
(* in chunks of chunk_size bytes (the last one shorter).  fail_at = k > 0: *)
(* the k-th read of the stream raises a RequestException; 0: none does.    *)
(***************************************************************************)
ChunkCount(body) == (body.len + chunk_size - 1) \div chunk_size
LenAfter(body, k) == Min(k * chunk_size, body.len)

\* The chunk loop with >= for > in its size test.
read_chunks_ge(body, fail_at) ==
    LET n == ChunkCount(body)
        raises == fail_at # 0 /\ fail_at <= n + 1
        yielded == IF raises THEN fail_at - 1 ELSE n
        over(k) == LenAfter(body, k) >= max_file_size
    IN  IF \E k \in 1..yielded : over(k)
        THEN LET k == CHOOSE j \in 1..yielded : over(j) /\ (j = 1 \/ ~over(j - 1))
             IN [end |-> "too_large", chunks |-> k, len |-> LenAfter(body, k)]
        ELSE IF raises
        THEN [end |-> "raises", chunks |-> yielded, len |-> LenAfter(body, yielded)]
        ELSE [end |-> "complete", chunks |-> n, len |-> body.len]

\* The chunk loop without its size test.
read_chunks_no_limit(body, fail_at) ==
    LET n == ChunkCount(body)
        raises == fail_at # 0 /\ fail_at <= n + 1
        yielded == IF raises THEN fail_at - 1 ELSE n
    IN  IF raises
        THEN [end |-> "raises", chunks |-> yielded, len |-> LenAfter(body, yielded)]
        ELSE [end |-> "complete", chunks |-> n, len |-> body.len]

read_chunks(body, fail_at) ==
    LET n == ChunkCount(body)
        raises == fail_at # 0 /\ fail_at <= n + 1
        yielded == IF raises THEN fail_at - 1 ELSE n
        over(k) == LenAfter(body, k) > max_file_size
    IN  IF \E k \in 1..yielded : over(k)
        THEN LET k == CHOOSE j \in 1..yielded : over(j) /\ (j = 1 \/ ~over(j - 1))
             IN [end |-> "too_large", chunks |-> k, len |-> LenAfter(body, k)]
        ELSE IF raises
        THEN [end |-> "raises", chunks |-> yielded, len |-> LenAfter(body, yielded)]
        ELSE [end |-> "complete", chunks |-> n, len |-> body.len]

(***************************************************************************)
(* get_extension_from_content_type and get_filename_from_url.              *)
(***************************************************************************)
get_extension_from_content_type(content_type) ==
    CASE content_type = "image/jpeg" -> ".jpg"
      [] content_type = "image/jpg" -> ".jpg"
      [] content_type = "image/png" -> ".png"
      [] content_type = "image/gif" -> ".gif"
      [] content_type = "image/webp" -> ".webp"
      [] content_type = "image/svg+xml" -> ".svg"
      [] content_type = "image/bmp" -> ".bmp"
      [] content_type = "image/tiff" -> ".tiff"
      [] OTHER -> ".jpg"

\* get_filename_from_url that appends the extension to every non-empty name.
get_filename_from_url_always_appends(url, content_type) ==
    LET filename == urlparse(url).path IN
    IF filename = EmptySegment
    THEN Name("ubuntu_image", <<>>, get_extension_from_content_type(content_type))
    ELSE [filename EXCEPT !.stem = filename.stem \o filename.ext,
                          !.ext = get_extension_from_content_type(content_type)]

get_filename_from_url(url, content_type) ==
    LET filename == urlparse(url).path IN
    IF filename = EmptySegment
    THEN Name("ubuntu_image", <<>>, get_extension_from_content_type(content_type))
    ELSE IF filename.ext = ""
         THEN [filename EXCEPT !.ext = get_extension_from_content_type(content_type)]
         ELSE filename

(***************************************************************************)
(* The collision loop of download_image: base and ext are split once from  *)
(* the candidate; the loop tries base_1ext, base_2ext, ...                 *)
(***************************************************************************)
Suffixed(candidate, counter) ==
    [candidate EXCEPT !.sfx = Append(candidate.sfx, counter)]

\* The collision loop with base and ext split again from the path just tried.
RECURSIVE collision_loop_resplit(_, _, _, _)
collision_loop_resplit(exists, candidate, filepath, counter) ==
    IF filepath \in exists
    THEN collision_loop_resplit(exists, candidate, Suffixed(filepath, counter), counter + 1)
    ELSE [filepath |-> filepath, counter |-> counter]

RECURSIVE collision_loop(_, _, _, _)
collision_loop(exists, candidate, filepath, counter) ==
    IF filepath \in exists
    THEN collision_loop(exists, candidate, Suffixed(candidate, counter), counter + 1)
    ELSE [filepath |-> filepath, counter |-> counter]

\* No collision loop: the candidate is written to as it is.
unique_filepath_unchecked(exists, candidate) ==
    [filepath |-> candidate, counter |-> 1]

unique_filepath(exists, candidate) == collision_loop(exists, candidate, candidate, 1)

\* is_duplicate_image that keeps only the digest it has just seen.
is_duplicate_image_replaces(hashes, body) ==
    LET content_hash == md5(body) IN
    IF content_hash \in hashes
    THEN [duplicate |-> TRUE, hashes |-> hashes]
    ELSE [duplicate |-> FALSE, hashes |-> {content_hash}]

\* is_duplicate_image that drops the digest when it answers duplicate.
is_duplicate_image_forgets(hashes, body) ==
    LET content_hash == md5(body) IN
    IF content_hash \in hashes
    THEN [duplicate |-> TRUE, hashes |-> hashes \ {content_hash}]
    ELSE [duplicate |-> FALSE, hashes |-> hashes \cup {content_hash}]

\* is_duplicate_image that never records the digest.
is_duplicate_image_no_add(hashes, body) ==
    [duplicate |-> md5(body) \in hashes, hashes |-> hashes]

(***************************************************************************)
(* is_duplicate_image: the answer and the registry after the call.         *)
(***************************************************************************)
is_duplicate_image(hashes, body) ==
    LET content_hash == md5(body) IN
    IF content_hash \in hashes
    THEN [duplicate |-> TRUE, hashes |-> hashes]
    ELSE [duplicate |-> FALSE, hashes |-> hashes \cup {content_hash}]

(***************************************************************************)
(* open(filepath, 'wb') and f.write(content) on the directory: "ok"; or    *)
(* open raises and nothing changes; or write raises after open created    *)
(* the file, which is left empty ("write_fails") or holding the first      *)
(* PartialLength bytes of the content ("write_partial").                   *)
(***************************************************************************)
FsBehaviours == {"ok", "open_fails", "write_fails", "write_partial"}
PartialLength == 2
Partial(body) == Body("partial", PartialLength)

Put(dir, filepath, body) ==
    [p \in DOMAIN dir \cup {filepath} |-> IF p = filepath THEN body ELSE dir[p]]

write_file(dir, filepath, body, fs) ==
    CASE fs = "ok" -> Put(dir, filepath, body)
      [] fs = "write_fails" -> Put(dir, filepath, Truncated)
      [] fs = "write_partial" -> Put(dir, filepath, Partial(body))
      [] OTHER -> dir

(***************************************************************************)
(* Inputs of a run: the batches the user may enter, the directory found at *)
(* start (makedirs has exist_ok=True: here an earlier run left image.jpg), *)
(* and the read at which a body stream may break (0: it does not break).   *)
(***************************************************************************)
RECURSIVE SeqsUpTo(_, _)
SeqsUpTo(S, n) ==
    IF n = 0 THEN {<<>>}
    ELSE LET shorter == SeqsUpTo(S, n - 1) IN
         shorter \cup {Append(q, x) : q \in shorter, x \in S}

Fetches(batch) == {k \in DOMAIN batch : is_safe_url(batch[k]) = "True"}

Batches ==
    {batch \in SeqsUpTo(BatchUrls, MaxBatch) : Cardinality(Fetches(batch)) <= MaxFetches}

ImageJpg == Name("image", <<>>, ".jpg")
InitialDirs == {[p \in {ImageJpg} |-> BodyOld]}

FailAts == {0, 2, 1282}

VARIABLES
    mpc,                \* where main is
    urls,               \* the batch main iterates over
    i,                  \* position of the for loop in urls
    success_count,
    summary,            \* the summary line: [succeeded, total], or None
    dpc,                \* where download_image is
    url,                \* its argument
    response,           \* the response of requests.get
    content,            \* the body accumulated by the chunk loop
    filepath,
    ret,                \* what download_image returns: a filepath or None
    msg,                \* which line download_image printed
    downloaded_hashes,
    files,              \* Fetched_Images: file name -> content
    gets,               \* the URLs a GET was issued for
    chunks_read,        \* chunks taken from the body stream in this call
    stream,             \* what the server sends as the body: [body, fail_at]
    files_before,       \* the directory when this call began
    hashes_before,      \* the registry when this call began
    outcomes,           \* per finished call: what it printed, streamed, returned
    stages,             \* the stages this call has run, in order
    dir_errors,         \* how many times main printed "Cannot create directory"
    files_at_start,     \* the directory when the run began
    threads             \* callers of is_duplicate_image that run concurrently

vars == <<mpc, urls, i, success_count, summary, dpc, url, response, content,
          filepath, ret, msg, downloaded_hashes, files, gets, chunks_read, stream,
          files_before, hashes_before, outcomes, stages, dir_errors,
          files_at_start, threads>>

mainVars == <<mpc, urls, i, success_count, summary>>
callVars == <<url, response, content, filepath>>
ghostVars == <<gets, chunks_read, stream, files_before, hashes_before, outcomes>>
storeVars == <<downloaded_hashes, files>>
runVars == <<dir_errors, files_at_start, threads>>

Init ==
    /\ mpc = "makedirs"
    /\ urls = <<>>
    /\ i = 1
    /\ success_count = 0
    /\ summary = None
    /\ dpc = "idle"
    /\ url = None
    /\ response = None
    /\ content = None
    /\ filepath = None
    /\ ret = None
    /\ msg = ""
    /\ downloaded_hashes = {}
    /\ files \in InitialDirs
    /\ gets = {}
    /\ chunks_read = 0
    /\ stream = None
    /\ files_before = files
    /\ hashes_before = {}
    /\ outcomes = <<>>
    /\ stages = <<>>
    /\ dir_errors = 0
    /\ files_at_start = files
    /\ threads = <<>>

(***************************************************************************)
(* main                                                                    *)
(***************************************************************************)
\* Going on to read the URLs although the directory could not be created.
after_makedirs_ignored(created) == "input"

after_makedirs(created) == IF created THEN "input" ELSE "aborted"

Makedirs ==
    /\ mpc = "makedirs"
    /\ \E created \in BOOLEAN :
          /\ mpc' = after_makedirs(created)
          /\ dir_errors' = IF created THEN dir_errors ELSE dir_errors + 1
    /\ UNCHANGED <<urls, i, success_count, summary, dpc, callVars, ret, msg,
                   storeVars, ghostVars, stages, files_at_start, threads>>

GetUserUrls ==
    /\ mpc = "input"
    /\ \E batch \in Batches :
          /\ urls' = batch
          /\ mpc' = IF batch = <<>> THEN "no_urls" ELSE "loop"
    /\ i' = 1
    /\ success_count' = 0
    /\ UNCHANGED <<summary, dpc, callVars, ret, msg, storeVars, ghostVars, stages,
                   runVars>>

CallDownload ==
    /\ mpc = "loop"
    /\ dpc = "idle"
    /\ i <= Len(urls)
    /\ dpc' = "is_safe"
    /\ url' = urls[i]
    /\ files_before' = files
    /\ hashes_before' = downloaded_hashes
    /\ UNCHANGED <<mainVars, response, content, filepath, ret, msg, storeVars,
                   gets, chunks_read, stream, outcomes, stages, runVars>>

Outcome == [kind |-> msg, body |-> content, path |-> ret]

\* Counting every call, whatever it returned.
count_success_always(count, returned) == count + 1

count_success(count, returned) ==
    IF returned # None THEN count + 1 ELSE count

ReturnToMain ==
    /\ mpc = "loop"
    /\ dpc = "return"
    /\ success_count' = count_success(success_count, ret)
    /\ i' = i + 1
    /\ outcomes' = Append(outcomes, Outcome)
    /\ dpc' = "idle"
    /\ url' = None
    /\ response' = None
    /\ content' = None
    /\ filepath' = None
    /\ ret' = None
    /\ msg' = ""
    /\ chunks_read' = 0
    /\ stream' = None
    /\ files_before' = files
    /\ hashes_before' = downloaded_hashes
    /\ stages' = <<>>
    /\ UNCHANGED <<mpc, urls, summary, storeVars, gets, runVars>>

PrintSummary ==
    /\ mpc = "loop"
    /\ dpc = "idle"
    /\ i > Len(urls)
    /\ summary' = [succeeded |-> success_count, total |-> Len(urls)]
    /\ mpc' = "done"
    /\ UNCHANGED <<urls, i, success_count, dpc, callVars, ret, msg, storeVars,
                   ghostVars, stages, runVars>>

(***************************************************************************)
(* download_image                                                          *)
(***************************************************************************)
Return(kind, value) ==
    /\ dpc' = "return"
    /\ msg' = kind
    /\ ret' = value

CheckSafe ==
    /\ dpc = "is_safe"
    /\ LET safe == is_safe_url(url) IN
       CASE safe = "ValueError" ->
              /\ dpc' = "raised"
              /\ mpc' = "crashed"
              /\ UNCHANGED <<msg, ret>>
         [] safe = "False" -> Return("unsafe", None) /\ UNCHANGED mpc
         [] OTHER -> dpc' = "get" /\ UNCHANGED <<mpc, msg, ret>>
    /\ stages' = Append(stages, "safety")
    /\ UNCHANGED <<urls, i, success_count, summary, callVars, storeVars, ghostVars,
                   runVars>>

Get ==
    /\ dpc = "get"
    /\ gets' = gets \cup {url}
    /\ \/ \E r \in Responses :
             /\ response' = r
             /\ dpc' = "validate"
             /\ UNCHANGED <<msg, ret>>
       \/ \E e \in {"conn_error", "error"} :
             /\ Return(e, None)
             /\ UNCHANGED response
    /\ stages' = Append(stages, "get")
    /\ UNCHANGED <<mainVars, url, content, filepath, storeVars, chunks_read, stream,
                   files_before, hashes_before, outcomes, runVars>>

Validate ==
    /\ dpc = "validate"
    /\ LET valid == validate_response(response) IN
       CASE valid = "ValueError" -> Return("error", None)
         [] valid = "False" -> Return("invalid", None)
         [] OTHER -> dpc' = "read" /\ UNCHANGED <<msg, ret>>
    /\ stages' = Append(stages, "validate")
    /\ UNCHANGED <<mainVars, callVars, storeVars, ghostVars, runVars>>

ReadBody ==
    /\ dpc = "read"
    /\ \E body \in Bodies, fail_at \in FailAts :
          LET r == read_chunks(body, fail_at) IN
          /\ fail_at <= ChunkCount(body) + 1
          /\ stream' = [body |-> body, fail_at |-> fail_at]
          /\ chunks_read' = r.chunks
          /\ CASE r.end = "too_large" -> Return("too_large", None) /\ UNCHANGED content
               [] r.end = "raises" -> Return("conn_error", None) /\ UNCHANGED content
               [] OTHER -> /\ content' = body
                           /\ dpc' = "dedup"
                           /\ UNCHANGED <<msg, ret>>
    /\ stages' = Append(stages, "stream")
    /\ UNCHANGED <<mainVars, url, response, filepath, storeVars, gets, files_before,
                   hashes_before, outcomes, runVars>>

CheckDuplicate ==
    /\ dpc = "dedup"
    /\ LET d == is_duplicate_image(downloaded_hashes, content) IN
       /\ downloaded_hashes' = d.hashes
       /\ IF d.duplicate
          THEN Return("duplicate", None)
          ELSE dpc' = "filename" /\ UNCHANGED <<msg, ret>>
    /\ stages' = Append(stages, "dedup")
    /\ UNCHANGED <<mainVars, callVars, files, ghostVars, runVars>>

ResolveFilepath ==
    /\ dpc = "filename"
    /\ LET content_type == lower(header_get(response.content_type, ""))
           filename == get_filename_from_url(url, content_type)
       IN  filepath' = unique_filepath(DOMAIN files, filename).filepath
    /\ dpc' = "write"
    /\ stages' = Append(stages, "filename")
    /\ UNCHANGED <<mainVars, url, response, content, ret, msg, storeVars, ghostVars,
                   runVars>>

WriteFile ==
    /\ dpc = "write"
    /\ \E fs \in FsBehaviours :
          /\ fs = "write_partial" => PartialLength < content.len
          /\ files' = write_file(files, filepath, content, fs)
          /\ IF fs = "ok" THEN Return("saved", filepath) ELSE Return("error", None)
    /\ stages' = Append(stages, "write")
    /\ UNCHANGED <<mainVars, callVars, downloaded_hashes, ghostVars, runVars>>

Next ==
    \/ Makedirs
    \/ GetUserUrls
    \/ CallDownload
    \/ CheckSafe
    \/ Get
    \/ Validate
    \/ ReadBody
    \/ CheckDuplicate
    \/ ResolveFilepath
    \/ WriteFile
    \/ ReturnToMain
    \/ PrintSummary

Spec == Init /\ [][Next]_vars

(***************************************************************************)
(* Filename derivation on its own: lines 123-124 of download_image applied *)
(* to every pairing of a last path segment with a Content-Type header     *)
(* that validate_response lets through.                                    *)
(* The segments: empty (the URL ends in "/"), without an extension, with   *)
(* one, a dot-file (splitext gives it no extension), and a name ending in  *)
(* a dot (splitext gives it the extension ".").                            *)
(***************************************************************************)
FilenameSegments ==
    {EmptySegment, Name("photo", <<>>, ""), Name("image", <<>>, ".jpg"),
     Name(".hidden", <<>>, ""), Name("logo", <<>>, "."), Name("pic", <<>>, ".PNG")}

FilenameUrls == {Url("https", "example.test", seg) : seg \in FilenameSegments}

FilenameContentTypes ==
    {"image/jpeg", "image/jpg", "image/png", "image/gif", "image/webp",
     "image/svg+xml", "image/bmp", "image/tiff", "image/x-custom",
     "image/png; charset=binary", "IMAGE/PNG", "Image/Gif", Absent, "text/html"}

InitFilename ==
    /\ mpc = "loop"
    /\ urls = <<>>
    /\ i = 1
    /\ success_count = 0
    /\ summary = None
    /\ dpc = "filename"
    /\ url \in FilenameUrls
    /\ response \in {r \in {Response(200, ctype, Absent) : ctype \in FilenameContentTypes} :
                         validate_response(r) = "True"}
    /\ content = None
    /\ filepath = None
    /\ ret = None
    /\ msg = ""
    /\ downloaded_hashes = {}
    /\ files \in InitialDirs
    /\ gets = {}
    /\ chunks_read = 0
    /\ stream = None
    /\ files_before = files
    /\ hashes_before = {}
    /\ outcomes = <<>>
    /\ stages = <<>>
    /\ dir_errors = 0
    /\ files_at_start = files
    /\ threads = <<>>

DeriveFilename ==
    /\ dpc = "filename"
    /\ LET content_type == lower(header_get(response.content_type, ""))
       IN  filepath' = get_filename_from_url(url, content_type)
    /\ dpc' = "named"
    /\ UNCHANGED <<mainVars, url, response, content, ret, msg, storeVars, ghostVars,
                   stages, runVars>>

NextFilename == DeriveFilename

SpecFilename == InitFilename /\ [][NextFilename]_vars

(***************************************************************************)
(* is_duplicate_image called from several threads on one fetcher.  The     *)
(* method takes no lock: the digest (line 67), the membership test (line   *)
(* 68) and the insertion (line 70) are separate steps, and another thread  *)
(* may run between any two of them.  Each thread makes one call; its       *)
(* record holds the argument, the local content_hash and where it stands:  *)
(* "hash", "check", "add", then "new" (returned False) or "duplicate"      *)
(* (returned True).                                                        *)
(***************************************************************************)
Threads == 1..MaxThreads
ThreadBodies == {BodyA, BodyA2, BodyExact}

Calling(body) == [pc |-> "hash", image_content |-> body, content_hash |-> ""]

InitThreads ==
    /\ mpc = "threads"
    /\ urls = <<>>
    /\ i = 1
    /\ success_count = 0
    /\ summary = None
    /\ dpc = "idle"
    /\ url = None
    /\ response = None
    /\ content = None
    /\ filepath = None
    /\ ret = None
    /\ msg = ""
    /\ downloaded_hashes = {}
    /\ files \in InitialDirs
    /\ gets = {}
    /\ chunks_read = 0
    /\ stream = None
    /\ files_before = files
    /\ hashes_before = {}
    /\ outcomes = <<>>
    /\ stages = <<>>
    /\ dir_errors = 0
    /\ files_at_start = files
    /\ threads \in [Threads -> {Calling(body) : body \in ThreadBodies}]

sequentialVars ==
    <<mainVars, dpc, callVars, ret, msg, files, ghostVars, stages, dir_errors,
      files_at_start>>

ThreadHash(t) ==
    /\ threads[t].pc = "hash"
    /\ threads' = [threads EXCEPT ![t].content_hash = md5(threads[t].image_content),
                                  ![t].pc = "check"]
    /\ UNCHANGED <<downloaded_hashes, sequentialVars>>

ThreadCheck(t) ==
    /\ threads[t].pc = "check"
    /\ threads' = [threads EXCEPT ![t].pc =
                      IF threads[t].content_hash \in downloaded_hashes
                      THEN "duplicate" ELSE "add"]
    /\ UNCHANGED <<downloaded_hashes, sequentialVars>>

ThreadAdd(t) ==
    /\ threads[t].pc = "add"
    /\ downloaded_hashes' = downloaded_hashes \cup {threads[t].content_hash}
    /\ threads' = [threads EXCEPT ![t].pc = "new"]
    /\ UNCHANGED sequentialVars

NextThreads ==
    \E t \in Threads :
       \/ ThreadHash(t)
       \/ ThreadCheck(t)
       \/ ThreadAdd(t)

SpecThreads == InitThreads /\ [][NextThreads]_vars

(***************************************************************************)
(* The chunk loop of download_image, one iteration per step.  The server   *)
(* sends a body of Bodies or one that never ends; iter_content yields it   *)
(* in pieces of chunk_size bytes or, when the connection delivers less at  *)
(* a time, of half that (the last piece of a finite body is what is left). *)
(* content is the buffer: the bytes of the body received so far.           *)
(***************************************************************************)
Endless == Body("endless", -1)
StreamBodies == Bodies \cup {Endless}
StreamPieces == {chunk_size, chunk_size \div 2}

next_chunk(st, received) ==
    IF st.body = Endless THEN st.piece
    ELSE Min(st.piece, st.body.len - received)

\* The size test of the chunk loop, never true.
exceeds_limit_never(length) == FALSE

exceeds_limit(length) == length > max_file_size

InitStream ==
    /\ mpc = "loop"
    /\ urls = <<>>
    /\ i = 1
    /\ success_count = 0
    /\ summary = None
    /\ dpc = "read"
    /\ url = None
    /\ response = None
    /\ stream \in {[body |-> body, fail_at |-> 0, piece |-> piece] :
                       body \in StreamBodies, piece \in StreamPieces}
    /\ content = Body(stream.body.bytes, 0)
    /\ filepath = None
    /\ ret = None
    /\ msg = ""
    /\ downloaded_hashes = {}
    /\ files \in InitialDirs
    /\ gets = {}
    /\ chunks_read = 0
    /\ files_before = files
    /\ hashes_before = {}
    /\ outcomes = <<>>
    /\ stages = <<>>
    /\ dir_errors = 0
    /\ files_at_start = files
    /\ threads = <<>>

streamFrame ==
    <<mainVars, url, response, filepath, storeVars, gets, stream, files_before,
      hashes_before, outcomes, stages, runVars>>

ReadChunk ==
    /\ dpc = "read"
    /\ LET chunk == next_chunk(stream, content.len) IN
       /\ chunk > 0
       /\ content' = Body(content.bytes, content.len + chunk)
       /\ chunks_read' = chunks_read + 1
       /\ IF exceeds_limit(content.len + chunk)
          THEN Return("too_large", None)
          ELSE UNCHANGED <<dpc, msg, ret>>
    /\ UNCHANGED streamFrame

EndOfStream ==
    /\ dpc = "read"
    /\ next_chunk(stream, content.len) = 0
    /\ dpc' = "dedup"
    /\ UNCHANGED <<content, chunks_read, msg, ret, streamFrame>>

NextStream ==
    \/ ReadChunk
    \/ EndOfStream

SpecStream == InitStream /\ [][NextStream]_vars

(***************************************************************************)
(* Vocabulary of the properties.                                           *)
(***************************************************************************)
InCall == dpc \notin {"idle"}
Checked == dpc \notin {"idle", "is_safe"}
Returned == dpc = "return"
Malformed(u) == u.netloc \in UnbalancedNetlocs
HttpScheme(u) == lower(u.scheme) \in {"http", "https"}
Kinds == [k \in DOMAIN outcomes |-> outcomes[k].kind]
SavedCalls == {k \in DOMAIN outcomes : outcomes[k].kind = "saved"}

\* Bytes the transport delivers before the stream ends or breaks.
Delivered(st) ==
    IF st.fail_at = 0 THEN st.body.len
    ELSE Min(st.body.len, (st.fail_at - 1) * chunk_size)

(***************************************************************************)
(* C1: download_image returns an outcome and never raises, so main         *)
(* goes on to the remaining URLs and reaches the summary line.             *)
(* Fails: is_safe_url is called before the try block, and urlparse raises  *)
(* ValueError on a netloc with an unbalanced bracket.                      *)
(***************************************************************************)
C1_NeverRaises == dpc # "raised" /\ mpc # "crashed"

(***************************************************************************)
(* C2: for a URL whose scheme is not http or https, download_image ends    *)
(* with the unsafe-scheme rejection and no GET is issued for it.           *)
(* Fails on the rejection half for "ftp://[example.test/a.png": the call   *)
(* raises ValueError instead of rejecting.                                 *)
(***************************************************************************)
C2_UnsafeRejected ==
    (InCall /\ ~HttpScheme(url)) =>
        /\ url \notin gets
        /\ Checked => (Returned /\ msg = "unsafe" /\ ret = None)

\* The half of C2 that the code keeps: a GET is issued only for http(s) URLs.
GetOnlyHttp == \A u \in gets : HttpScheme(u) /\ ~Malformed(u)

(***************************************************************************)
(* C3: a body that exceeds max_file_size (strictly) ends the call with     *)
(* the too-large failure, nothing is returned and the directory is as it   *)
(* was before the call; a body of exactly max_file_size is not rejected    *)
(* for its size.                                                           *)
(***************************************************************************)
C3_TooLargeNoFile ==
    (Returned /\ stream # None) =>
        /\ Delivered(stream) > max_file_size =>
              (msg = "too_large" /\ ret = None /\ files = files_before)
        /\ Delivered(stream) <= max_file_size => msg # "too_large"

C3_Witness ==
    /\ Returned
    /\ stream # None
    /\ stream.body = BodyOver
    /\ msg = "too_large"
    /\ chunks_read = 1281

C3_ExactWitness ==
    Returned /\ stream # None /\ stream.body = BodyExact /\ msg = "saved"

(***************************************************************************)
(* C4 as stated: of two calls whose valid responses carry byte-identical   *)
(* bodies (the earlier one being the first with that body) the first is    *)
(* Saved and the second Duplicate; a body that differs from every earlier  *)
(* one is never reported Duplicate.                                        *)
(* Fails: the digest is recorded before the file is written, so the first  *)
(* can fail at the write and the second still be Duplicate; and two        *)
(* different bodies with one md5 digest are taken for duplicates.          *)
(***************************************************************************)
Streamed(k) == outcomes[k].body # None
FirstWithBody(j) ==
    \A h \in 1..(j - 1) : ~(Streamed(h) /\ outcomes[h].body = outcomes[j].body)
FirstWithDigest(j) ==
    \A h \in 1..(j - 1) : ~(Streamed(h) /\ md5(outcomes[h].body) = md5(outcomes[j].body))

C4_IdenticalBodies ==
    \A k \in DOMAIN outcomes : Streamed(k) =>
        /\ \A j \in 1..(k - 1) :
              (Streamed(j) /\ FirstWithBody(j) /\ outcomes[j].body = outcomes[k].body)
                  => (outcomes[j].kind = "saved" /\ outcomes[k].kind = "duplicate")
        /\ FirstWithBody(k) => outcomes[k].kind # "duplicate"

(***************************************************************************)
(* C4 amended: a call whose body was streamed in full ends as Duplicate    *)
(* exactly when an earlier streamed body of this fetcher has the same md5  *)
(* digest (a byte-identical body in particular), and then it writes no     *)
(* file; otherwise it is Saved, or fails at the file write.  So a body     *)
(* whose digest differs from all earlier ones is treated as if those had   *)
(* not been processed.                                                     *)
(***************************************************************************)
C4_DedupByDigest ==
    /\ \A k \in DOMAIN outcomes : Streamed(k) =>
          /\ outcomes[k].kind = "duplicate" <=> ~FirstWithDigest(k)
          /\ outcomes[k].kind \in {"duplicate", "saved", "error"}
          /\ outcomes[k].kind = "duplicate" => outcomes[k].path = None
    /\ (Returned /\ msg = "duplicate") => (files = files_before /\ ret = None)

C4_Witness ==
    /\ Len(outcomes) >= 2
    /\ outcomes[1].kind = "saved"
    /\ outcomes[2].kind = "duplicate"
    /\ outcomes[1].body = outcomes[2].body

C4_DifferentWitness ==
    /\ Len(outcomes) >= 2
    /\ outcomes[1].kind = "saved"
    /\ outcomes[2].kind = "saved"
    /\ outcomes[1].body # outcomes[2].body

(***************************************************************************)
(* C5: no file is overwritten.  Every file that was in the directory when  *)
(* the call began is still there with the same content, and the path a     *)
(* write goes to does not exist when the write begins.                     *)
(***************************************************************************)
C5_NoOverwrite ==
    /\ \A p \in DOMAIN files_before : p \in DOMAIN files /\ files[p] = files_before[p]
    /\ dpc = "write" => filepath \notin DOMAIN files

C5_Witness ==
    /\ Returned
    /\ msg = "saved"
    /\ ret.sfx # <<>>
    /\ files[ret] = content
    /\ files[ImageJpg] = BodyOld

(***************************************************************************)
(* C6: a response with a status other than 200 ends the call with the      *)
(* invalid-response rejection whatever its headers: no chunk is read from  *)
(* the body, the registry and the directory are unchanged.                 *)
(***************************************************************************)
C6_Not200Rejected ==
    (InCall /\ response # None /\ response.status_code # 200) =>
        /\ dpc \in {"validate", "return"}
        /\ Returned => (msg = "invalid" /\ ret = None)
        /\ chunks_read = 0
        /\ stream = None
        /\ downloaded_hashes = hashes_before
        /\ files = files_before

C6_Witness ==
    /\ Returned
    /\ response # None
    /\ response.status_code = 404
    /\ response.content_type = "IMAGE/PNG"
    /\ response.content_length = Absent
    /\ msg = "invalid"
    /\ hashes_before # {}

(***************************************************************************)
(* C7: the collision loop returns the candidate when it does not exist,    *)
(* and otherwise base_k ext for the smallest k >= 1 that does not exist,   *)
(* base and ext being those of the candidate; k is at most the number of   *)
(* files in the directory, so the loop ends.                               *)
(***************************************************************************)
Candidate ==
    get_filename_from_url(url, lower(header_get(response.content_type, "")))

C7_SmallestFreeSuffix ==
    dpc = "write" =>
        LET exists == DOMAIN files IN
        IF Candidate \notin exists
        THEN filepath = Candidate
        ELSE \E k \in 1..Cardinality(exists) :
                /\ filepath = Suffixed(Candidate, k)
                /\ filepath \notin exists
                /\ \A j \in 1..(k - 1) : Suffixed(Candidate, j) \in exists

C7_Witness ==
    /\ dpc = "write"
    /\ Candidate = ImageJpg
    /\ {ImageJpg, Suffixed(ImageJpg, 1)} \subseteq DOMAIN files
    /\ filepath = Suffixed(ImageJpg, 2)

(***************************************************************************)
(* C8: validation rejects when the status is not 200; else when the        *)
(* Content-Type is absent or does not start with "image/" (any case);      *)
(* else when Content-Length is present and parses as an integer above      *)
(* max_file_size; in every other case it accepts and the body is streamed. *)
(* Fails: int() raises ValueError on a Content-Length that is not a        *)
(* number, and the call ends in the generic error handler.                 *)
(***************************************************************************)
RulesAccept(r) ==
    /\ r.status_code = 200
    /\ r.content_type # Absent
    /\ startswith_image(lower(r.content_type))
    /\ ~(/\ r.content_length # Absent
         /\ int_parses(r.content_length)
         /\ int_of(r.content_length) > max_file_size)

C8_ValidationRules ==
    (InCall /\ response # None /\ dpc # "validate") =>
        IF RulesAccept(response)
        THEN Returned => stream # None
        ELSE Returned /\ msg = "invalid" /\ stream = None

(***************************************************************************)
(* C9: is_safe_url is true exactly when the scheme is http or https in     *)
(* any case, and false, not an error, for a URL that does not parse.       *)
(* Fails: urlparse raises ValueError on "ftp://[example.test/a.png" and    *)
(* is_safe_url lets it through.                                            *)
(***************************************************************************)
C9_SafeIffHttp ==
    (InCall /\ Checked) =>
        IF HttpScheme(url) /\ ~Malformed(url)
        THEN dpc # "raised" /\ msg # "unsafe"
        ELSE Returned /\ msg = "unsafe"

(***************************************************************************)
(* C10: the summary reports as succeeded the number of calls that ended    *)
(* Saved, and as total the number of URLs of the batch.                    *)
(***************************************************************************)
C10_SummaryCounts ==
    summary # None =>
        /\ summary.succeeded = Cardinality(SavedCalls)
        /\ summary.total = Len(urls)
        /\ Len(outcomes) = Len(urls)

C10_Witness ==
    /\ summary = [succeeded |-> 1, total |-> 3]
    /\ Kinds = <<"saved", "unsafe", "duplicate">>

(***************************************************************************)
(* C11: the derived file name is ubuntu_image<ext> for an empty last path  *)
(* segment, the segment with <ext> appended when it has no extension, and  *)
(* the segment unchanged when it has one; <ext> is the extension the table *)
(* gives for the lower-cased Content-Type, .jpg for a type not in it.      *)
(***************************************************************************)
ExtensionTable ==
    {<<"image/jpeg", ".jpg">>, <<"image/jpg", ".jpg">>, <<"image/png", ".png">>,
     <<"image/gif", ".gif">>, <<"image/webp", ".webp">>, <<"image/svg+xml", ".svg">>,
     <<"image/bmp", ".bmp">>, <<"image/tiff", ".tiff">>}

TableExtension(content_type) ==
    IF \E row \in ExtensionTable : row[1] = content_type
    THEN (CHOOSE row \in ExtensionTable : row[1] = content_type)[2]
    ELSE ".jpg"

C11_FilenameDerivation ==
    dpc = "named" =>
        LET segment == url.segment
            ext == TableExtension(lower(header_get(response.content_type, "")))
        IN  /\ segment = EmptySegment => filepath = Name("ubuntu_image", <<>>, ext)
            /\ (segment # EmptySegment /\ segment.ext = "") =>
                   filepath = Name(segment.stem, segment.sfx, ext)
            /\ segment.ext # "" => filepath = segment

\* Reached: a name without extension that got .jpg for a type the table lacks.
C11_Witness ==
    /\ dpc = "named"
    /\ url.segment = Name("photo", <<>>, "")
    /\ response.content_type = "image/x-custom"
    /\ filepath = Name("photo", <<>>, ".jpg")

\* Reached: an empty segment named after the type, and a kept extension.
C11_TableWitness ==
    /\ dpc = "named"
    /\ \/ url.segment = EmptySegment /\ filepath = Name("ubuntu_image", <<>>, ".webp")
       \/ url.segment = Name("image", <<>>, ".jpg") /\ response.content_type = "image/png"
          /\ filepath = Name("image", <<>>, ".jpg")

(***************************************************************************)
(* C12: when os.makedirs fails the run aborts before any URL is attempted: *)
(* the failure is printed once, no URL is read or safety-checked, no GET   *)
(* is issued, no file is written, and main takes no further step.          *)
(***************************************************************************)
C12_AbortBeforeUrls ==
    /\ mpc = "aborted" <=> dir_errors > 0
    /\ dir_errors > 0 =>
          /\ dir_errors = 1
          /\ urls = <<>>
          /\ dpc = "idle" /\ url = None /\ stages = <<>> /\ outcomes = <<>>
          /\ gets = {}
          /\ files = files_at_start /\ downloaded_hashes = {}
          /\ summary = None
          /\ ~ENABLED Next

\* Reached: the directory could not be created.
C12_Witness == mpc = "aborted" /\ dir_errors = 1

(***************************************************************************)
(* Calls that got as far as the dedup check: their body was streamed in    *)
(* full after the response passed validation.                              *)
(***************************************************************************)
DedupCalls == {k \in DOMAIN outcomes : outcomes[k].body # None}
PastDedup == content # None /\ dpc # "dedup"
RecordingKinds == {"saved", "error"}

(***************************************************************************)
(* C13 as stated: every hash of the registry belongs to a body written to  *)
(* a file in this run; a call that does not end Saved leaves the registry  *)
(* unchanged; Duplicate implies an earlier Saved call with the same        *)
(* content.  Read where a call has returned or none is running.            *)
(* Fails: the digest is recorded at the dedup check and stays when the     *)
(* write fails.                                                            *)
(***************************************************************************)
C13_RegistryOnlySaved ==
    /\ dpc \in {"idle", "return"} =>
          \A h \in downloaded_hashes :
             \/ \E k \in SavedCalls : md5(outcomes[k].body) = h
             \/ Returned /\ msg = "saved" /\ md5(content) = h
    /\ (Returned /\ msg # "saved") => downloaded_hashes = hashes_before
    /\ (Returned /\ msg = "duplicate") =>
          \E k \in SavedCalls : outcomes[k].body = content

(***************************************************************************)
(* C13, amended: the registry holds exactly the md5 digests of the bodies  *)
(* that reached the dedup check in this run.  A call ending unsafe,        *)
(* invalid, too large, duplicate or with a transport error leaves it       *)
(* unchanged; a call ending Saved or failing at the file write has added   *)
(* its digest.  Duplicate implies an earlier call, Saved or failed at the  *)
(* write, whose body has the same digest.                                  *)
(***************************************************************************)
C13_RegistryOfStreamedBodies ==
    /\ downloaded_hashes =
          {md5(outcomes[k].body) : k \in DedupCalls}
             \cup (IF PastDedup THEN {md5(content)} ELSE {})
    /\ (Returned /\ (msg \notin RecordingKinds \/ content = None)) =>
          downloaded_hashes = hashes_before
    /\ (Returned /\ msg \in RecordingKinds /\ content # None) =>
          /\ md5(content) \notin hashes_before
          /\ downloaded_hashes = hashes_before \cup {md5(content)}
    /\ (Returned /\ msg = "duplicate") =>
          \E k \in DedupCalls :
             /\ outcomes[k].kind \in RecordingKinds
             /\ md5(outcomes[k].body) = md5(content)

\* Reached: a Duplicate whose only earlier call with that digest failed at
\* the write, so that no call was Saved.
C13_Witness ==
    /\ Returned /\ msg = "duplicate"
    /\ SavedCalls = {}
    /\ \E k \in DedupCalls : outcomes[k].kind = "error" /\ outcomes[k].body = content

(***************************************************************************)
(* Stages of one download_image call.  "get" issues the request, "stream"  *)
(* reads the body chunk by chunk under the size ceiling.                   *)
(***************************************************************************)
Ran(stage) == \E j \in DOMAIN stages : stages[j] = stage
IsPrefix(p, q) == Len(p) <= Len(q) /\ p = SubSeq(q, 1, Len(p))
StageOrder == <<"safety", "get", "validate", "stream", "dedup", "filename", "write">>
ClaimedStageOrder == <<"safety", "get", "stream", "validate", "dedup", "filename", "write">>

\* How many stages have run when a call stands at a given point.
StagesAt ==
    CASE dpc \in {"idle", "is_safe"} -> {0}
      [] dpc \in {"get", "raised"} -> {1}
      [] dpc = "validate" -> {2}
      [] dpc = "read" -> {3}
      [] dpc = "dedup" -> {4}
      [] dpc = "filename" -> {5}
      [] dpc = "write" -> {6}
      [] msg = "unsafe" -> {1}
      [] msg = "invalid" -> {3}
      [] msg = "too_large" -> {4}
      [] msg = "conn_error" -> {2, 4}
      [] msg = "duplicate" -> {5}
      [] msg = "saved" -> {7}
      [] OTHER -> {2, 3, 7}

\* What a stage needs of the stages before it.
StageGuards ==
    /\ Ran("get") => is_safe_url(url) = "True"
    /\ Ran("stream") => RulesAccept(response)
    /\ Ran("dedup") =>
          /\ RulesAccept(response)
          /\ stream.fail_at = 0 /\ content = stream.body
          /\ content.len <= max_file_size
    /\ Ran("write") => (Ran("dedup") /\ md5(content) \notin hashes_before)
    /\ files # files_before => Ran("write")

(***************************************************************************)
(* C14 as stated: the stages of a URL run in the order safety check,       *)
(* download with streaming and size enforcement, response validation,      *)
(* dedup check, filename resolution, persist; a stage that fails ends the  *)
(* URL.  Fails: the response is validated before its body is streamed.     *)
(***************************************************************************)
C14_StreamBeforeValidation ==
    /\ IsPrefix(stages, ClaimedStageOrder)
    /\ StageGuards

(***************************************************************************)
(* C14, amended: the stages of a URL run in the order safety check, GET,   *)
(* response validation, streaming with size enforcement, dedup check,      *)
(* filename resolution, persist; the stage that fails is the last one of   *)
(* its call.  The body is streamed only for a response that passed         *)
(* validation, dedup runs only on a body streamed in full within the       *)
(* ceiling, and a file is written only after dedup found the digest new.   *)
(***************************************************************************)
C14_StageOrder ==
    /\ IsPrefix(stages, StageOrder)
    /\ Len(stages) \in StagesAt
    /\ StageGuards

\* Reached: a call that ran all seven stages, and one that validation ended
\* before any chunk was read.
C14_Witness == Returned /\ msg = "saved" /\ stages = StageOrder

C14_InvalidWitness ==
    /\ Returned /\ msg = "invalid"
    /\ stages = <<"safety", "get", "validate">>
    /\ chunks_read = 0

(***************************************************************************)
(* C15: the dedup check and the insertion act as one unit: of the calls    *)
(* that run concurrently on one fetcher with byte-identical bodies, at     *)
(* most one is reported new.                                               *)
(* Fails: is_duplicate_image holds no lock; two threads can both pass the  *)
(* membership test before either inserts.                                  *)
(***************************************************************************)
C15_AtMostOneNew ==
    \A t1, t2 \in Threads :
       (/\ t1 # t2
        /\ threads[t1].image_content = threads[t2].image_content
        /\ threads[t1].pc = "new")
           => threads[t2].pc # "new"

(***************************************************************************)
(* C16: the registry is empty when the fetcher is created and only grows:  *)
(* no digest that a call left in it is ever missing later, every call of   *)
(* is_duplicate_image leaves the digest of its argument in it and adds     *)
(* nothing else, and the call answers duplicate exactly when that digest   *)
(* was in the registry before the call.                                    *)
(***************************************************************************)
C16_RegistryGrows ==
    /\ mpc \in {"makedirs", "input"} => downloaded_hashes = {}
    /\ hashes_before \subseteq downloaded_hashes
    /\ \A k \in DedupCalls : md5(outcomes[k].body) \in downloaded_hashes
    /\ ~PastDedup => downloaded_hashes = hashes_before
    /\ PastDedup =>
          /\ md5(content) \in downloaded_hashes
          /\ downloaded_hashes \ hashes_before \subseteq {md5(content)}
          /\ msg = "duplicate" <=> md5(content) \in hashes_before

\* Reached: a second digest joins the first; and a call answered duplicate.
C16_Witness ==
    /\ dpc = "filename"
    /\ hashes_before = {md5(BodyA)}
    /\ downloaded_hashes = {md5(BodyA), md5(BodyExact)}

C16_DuplicateWitness ==
    /\ Returned /\ msg = "duplicate"
    /\ md5(content) \in hashes_before
    /\ downloaded_hashes = hashes_before

(***************************************************************************)
(* C17: while the body is streamed in chunks of at most chunk_size bytes   *)
(* the buffer never holds more than the ceiling plus one chunk: the loop   *)
(* goes on only while the buffer is within the ceiling, it stops at the    *)
(* first chunk that takes it over, and so it reads at most                 *)
(* max_file_size / piece + 1 chunks of a body, endless or not.  For pieces *)
(* of chunk_size bytes the loop ends as read_chunks says.                  *)
(***************************************************************************)
C17_BufferBounded ==
    /\ content.len <= max_file_size + chunk_size
    /\ dpc = "read" => content.len <= max_file_size
    /\ (Returned /\ msg = "too_large") =>
          /\ content.len > max_file_size
          /\ content.len - stream.piece <= max_file_size
    /\ dpc = "dedup" => content = stream.body
    /\ chunks_read <= (max_file_size \div stream.piece) + 1
    /\ stream.body = Endless => dpc # "dedup"
    /\ (dpc # "read" /\ stream.piece = chunk_size /\ stream.body # Endless) =>
          LET r == read_chunks(stream.body, 0) IN
          /\ chunks_read = r.chunks
          /\ content.len = r.len
          /\ r.end = "too_large" <=> msg = "too_large"

\* Reached: an endless body cut off at the first chunk over the ceiling.
C17_Witness ==
    /\ Returned /\ msg = "too_large"
    /\ stream.body = Endless /\ stream.piece = chunk_size
    /\ content.len = max_file_size + chunk_size
    /\ chunks_read = (max_file_size \div chunk_size) + 1

\* Reached: a body of exactly the ceiling read to its end.
C17_ExactWitness ==
    /\ dpc = "dedup"
    /\ content = BodyExact
    /\ chunks_read = max_file_size \div stream.piece

(***************************************************************************)
(* C18: after a batch run the paths returned for the Saved outcomes are    *)
(* pairwise distinct, each names a file that holds exactly the body        *)
(* downloaded for its URL, and the number of files added to the directory  *)
(* equals the success count of the summary.                                *)
(* Fails: a write that raises after open created the file leaves that file *)
(* behind, and the call is not counted.                                    *)
(***************************************************************************)
FilesAdded == DOMAIN files \ DOMAIN files_at_start

SavedPathsDistinct ==
    \A j, k \in SavedCalls : j # k => outcomes[j].path # outcomes[k].path

SavedFilesExact ==
    \A k \in SavedCalls :
       /\ outcomes[k].path \in FilesAdded
       /\ files[outcomes[k].path] = outcomes[k].body

C18_SavedFilesMatchCount ==
    mpc = "done" =>
        /\ SavedPathsDistinct
        /\ SavedFilesExact
        /\ Cardinality(FilesAdded) = summary.succeeded

\* The part of C18 that holds at every point of a run: distinct paths, each
\* holding the body of its call, and at least as many files added as calls
\* counted.
SavedFilesKept ==
    /\ SavedPathsDistinct
    /\ SavedFilesExact
    /\ Cardinality(FilesAdded) >= Cardinality(SavedCalls)
    /\ mpc = "done" => summary.succeeded = Cardinality(SavedCalls)

====
